---- MODULE Spec2Model ----
(***************************************************************************)
(* Model of logdata_gen/data_gen.py: the synthetic event generator and its *)
(* batch submission to the DynamoDB table.                                 *)
(*                                                                         *)
(* Strings are sequences of one-character strings, so that formatting      *)
(* (strftime, isoformat, f-strings) is modelled by what it produces.       *)
(* A datetime is [ord, sec, us]: proleptic Gregorian day ordinal, second   *)
(* of the day, microsecond, as CPython's datetime normalises it.           *)
(***************************************************************************)
EXTENDS Integers, Sequences, FiniteSets, TLC

\* ---------------------------------------------------------------- bounds
\* Scaled-down configuration: the script runs with 100 users, 30 days and
\* 1000..2000 events per day.
NUM_USERS == 2
DAYS_TO_GENERATE == 2
\* random.randint(1000, 2000) scaled to MinEventsToday..MaxEventsToday, the
\* lower end staying half the upper end (rounded up).
MaxEventsToday == 2
MinEventsToday == (MaxEventsToday + 1) \div 2

\* ------------------------------------------------------ program constants
EVENTS == <<"PageView", "AddToCart", "Checkout", "Error">>
USER_TIERS == <<"Free", "Premium", "Enterprise">>
USER_BASE == 1000
VALUE_MIN == 100
VALUE_MAX == 5000
MAX_HOUR == 23
MAX_MINUTE == 59
MAX_SECOND == 59
SECONDS_PER_DAY == 24 * 3600

Range(s) == {s[k] : k \in 1..Len(s)}

\* The element of a one-element set; { e(x) : x \in {v} } evaluates v once.
Only(S) == CHOOSE x \in S : TRUE

\* ---------------------------------------------------------------- strings
DigitChars == <<"0", "1", "2", "3", "4", "5", "6", "7", "8", "9">>

\* Characters in ASCII order, for comparing strings as the table compares
\* sort keys.
Alphabet ==
  <<"#", "-", ".">> \o DigitChars \o <<":", "E", "N", "R", "S", "T", "U", "V">>

CharCodes == [c \in Range(Alphabet) |-> CHOOSE k \in 1..Len(Alphabet) : Alphabet[k] = c]

CharCode(c) == CharCodes[c]

IsDigit(c) == c \in Range(DigitChars)

DigitVals == [c \in Range(DigitChars) |-> (CHOOSE k \in 1..10 : DigitChars[k] = c) - 1]

DigitVal(c) == DigitVals[c]

\* Number of decimal digits of n, 0 <= n < 10^9
Width(n) == CHOOSE w \in 1..9 : n < 10^w /\ (w = 1 \/ n >= 10^(w - 1))

\* "%0wd" % n : zero-padded to at least w characters, never truncated
Pad(n, w) ==
  LET len == IF Width(n) > w THEN Width(n) ELSE w
  IN [k \in 1..len |-> DigitChars[((n \div 10^(len - k)) % 10) + 1]]

\* str(n) for n >= 0
Dec(n) == Pad(n, 1)

\* int(s) for a string of two, four or six digits (the fields of a timestamp)
ParseNum(s) ==
  LET place(k) == DigitVal(s[k]) * 10^(Len(s) - k)
  IN IF Len(s) = 2 THEN place(1) + place(2)
     ELSE IF Len(s) = 4 THEN place(1) + place(2) + place(3) + place(4)
     ELSE place(1) + place(2) + place(3) + place(4) + place(5) + place(6)

\* a < b for strings: decided by the first position where they differ, or
\* by length when one is a prefix of the other
LexLess(a, b) ==
  LET common == IF Len(a) < Len(b) THEN Len(a) ELSE Len(b)
      differ == {x \in 1..common : a[x] # b[x]}
  IN IF differ = {} THEN Len(a) < Len(b)
     ELSE LET k == CHOOSE x \in differ : \A y \in differ : x <= y
          IN CharCode(a[k]) < CharCode(b[k])

\* --------------------------------------------------------------- calendar
DAYS_IN_MONTH == <<31, 28, 31, 30, 31, 30, 31, 31, 30, 31, 30, 31>>
DAYS_BEFORE_MONTH == <<0, 31, 59, 90, 120, 151, 181, 212, 243, 273, 304, 334>>

IsLeap(y) == y % 4 = 0 /\ (y % 100 # 0 \/ y % 400 = 0)

DaysInMonth(y, m) == IF m = 2 /\ IsLeap(y) THEN 29 ELSE DAYS_IN_MONTH[m]

DaysBeforeMonth(y, m) ==
  DAYS_BEFORE_MONTH[m] + (IF m > 2 /\ IsLeap(y) THEN 1 ELSE 0)

DaysBeforeYear(y) ==
  (y - 1) * 365 + (y - 1) \div 4 - (y - 1) \div 100 + (y - 1) \div 400

\* date(y, m, d).toordinal()
Ymd2Ord(y, m, d) == DaysBeforeYear(y) + DaysBeforeMonth(y, m) + d

\* date.fromordinal(n) as [year, month, day]
Ord2Ymd(n) ==
  LET n0   == n - 1
      n400 == n0 \div 146097
      r400 == n0 % 146097
      n100 == r400 \div 36524
      r100 == r400 % 36524
      n4   == r100 \div 1461
      r4   == r100 % 1461
      n1   == r4 \div 365
      r1   == r4 % 365
      y    == n400 * 400 + n100 * 100 + n4 * 4 + n1 + 1
  IN IF n1 = 4 \/ n100 = 4
     THEN [year |-> y - 1, month |-> 12, day |-> 31]
     ELSE LET m == CHOOSE k \in 1..12 :
                     /\ DaysBeforeMonth(y, k) <= r1
                     /\ r1 < DaysBeforeMonth(y, k) + DaysInMonth(y, k)
          IN [year |-> y, month |-> m, day |-> r1 - DaysBeforeMonth(y, m) + 1]

\* datetime(y, m, d, hh, mm, ss, us)
DateTime(y, m, d, hh, mm, ss, us) ==
  [ord |-> Ymd2Ord(y, m, d), sec |-> hh * 3600 + mm * 60 + ss, us |-> us]

\* dt + timedelta(days=, hours=, minutes=, seconds=), days possibly negative
AddTimedelta(dt, days, hours, minutes, seconds) ==
  LET total == dt.sec + hours * 3600 + minutes * 60 + seconds
  IN [ord |-> dt.ord + days + total \div SECONDS_PER_DAY,
      sec |-> total % SECONDS_PER_DAY,
      us  |-> dt.us]

\* a < b for datetimes
DtLess(a, b) ==
  \/ a.ord < b.ord
  \/ a.ord = b.ord /\ a.sec < b.sec
  \/ a.ord = b.ord /\ a.sec = b.sec /\ a.us < b.us

Hour(dt) == dt.sec \div 3600
Minute(dt) == (dt.sec % 3600) \div 60
Second(dt) == dt.sec % 60

\* ------------------------------------------------------------- the clock
\* The instants datetime.now() is sampled at: a midnight after a leap day
\* (no microseconds), a midday with microseconds whose window crosses the
\* year, and the last microsecond of a day.
Nows ==
  { DateTime(2024, 3, 1, 0, 0, 0, 0),
    DateTime(2025, 1, 1, 12, 0, 0, 500000),
    DateTime(2025, 11, 2, 23, 59, 59, 999999) }

\* ------------------------------------------------------------- formatting
Str_EVENT == <<"E", "V", "E", "N", "T", "#">>
Str_USER == <<"U", "S", "E", "R", "#">>

\* StrftimeCompact with '%-m%-d%-H%-M%-S': the fields are not zero-padded
StrftimeCompact_Unpadded(dt) ==
  LET d == Ord2Ymd(dt.ord)
  IN Dec(d.year) \o Dec(d.month) \o Dec(d.day)
       \o Dec(Hour(dt)) \o Dec(Minute(dt)) \o Dec(Second(dt))

\* dt.strftime('%Y%m%d%H%M%S')
StrftimeCompact(dt) ==
  Only({ Pad(d.year, 4) \o Pad(d.month, 2) \o Pad(d.day, 2)
           \o Pad(Hour(dt), 2) \o Pad(Minute(dt), 2) \o Pad(Second(dt), 2)
         : d \in {Ord2Ymd(dt.ord)} })

\* dt.strftime('%Y-%m-%d')
StrftimeDate(dt) ==
  Only({ Pad(d.year, 4) \o <<"-">> \o Pad(d.month, 2) \o <<"-">> \o Pad(d.day, 2)
         : d \in {Ord2Ymd(dt.ord)} })

\* dt.isoformat(): the fraction is printed only when the microsecond is not 0
Isoformat(dt) ==
  StrftimeDate(dt) \o <<"T">>
    \o Pad(Hour(dt), 2) \o <<":">> \o Pad(Minute(dt), 2) \o <<":">> \o Pad(Second(dt), 2)
    \o (IF dt.us = 0 THEN <<>> ELSE <<".">> \o Pad(dt.us, 6))

\* [f"USER#{1000 + i}" for i in range(NUM_USERS)]
user_ids == [k \in 1..NUM_USERS |-> Str_USER \o Dec(USER_BASE + (k - 1))]

\* StartDate with the window one day short
StartDate_OneDayShort(n) == AddTimedelta(n, 1 - DAYS_TO_GENERATE, 0, 0, 0)

\* datetime.now() - timedelta(days=DAYS_TO_GENERATE)
StartDate(n) == AddTimedelta(n, 0 - DAYS_TO_GENERATE, 0, 0, 0)

\* start_date + timedelta(days=i)
CurrentDate(start, day) == AddTimedelta(start, day, 0, 0, 0)

\* current_date + timedelta(hours=, minutes=, seconds=)
EventTime(cur, hours, minutes, seconds) == AddTimedelta(cur, 0, hours, minutes, seconds)

\* f"EVENT#{timestamp.strftime('%Y%m%d%H%M%S')}"
SortKey(timestamp) == Str_EVENT \o StrftimeCompact(timestamp)

\* ItemValue without the event-type condition
ItemValue_Unconditional(event_type, r) == r

\* random.randint(100, 5000) if event_type == 'Checkout' else 0
ItemValue(event_type, r) == IF event_type = "Checkout" THEN r ELSE 0

\* ----------------------------------------------------------- random draws
\* One event's draws: index into user_ids, event type, tier, the three
\* offsets, and the integer randint(100, 5000) returns when it is called.
Draw(u, e, t, hh, mm, ss, r) ==
  [user |-> u % NUM_USERS, event |-> e, tier |-> t,
   hours |-> hh, minutes |-> mm, seconds |-> ss, r |-> r]

\* The space the generator draws from.
DrawSpace ==
  [user : 0..(NUM_USERS - 1), event : Range(EVENTS), tier : Range(USER_TIERS),
   hours : 0..MAX_HOUR, minutes : 0..MAX_MINUTE, seconds : 0..MAX_SECOND,
   r : VALUE_MIN..VALUE_MAX]

\* The generator's draws are a function of the state the random module was
\* seeded with at import.  The model explores these samples of DrawSpace,
\* one per seeding: together the extremes of every offset, every event type
\* and tier, two events of one user, two users in one second, and both ends
\* of the value range.
RandomSamples ==
  << { Draw(0, EVENTS[1], USER_TIERS[1], 0, 0, 0, VALUE_MIN),
       Draw(0, EVENTS[3], USER_TIERS[2], MAX_HOUR, MAX_MINUTE, MAX_SECOND, VALUE_MIN) },
     { Draw(1, EVENTS[3], USER_TIERS[3], 12, 30, 30, VALUE_MAX),
       Draw(2, EVENTS[2], USER_TIERS[1], 0, MAX_MINUTE, MAX_SECOND, VALUE_MAX) },
     { Draw(0, EVENTS[4], USER_TIERS[2], MAX_HOUR, 0, 0, VALUE_MAX - 1),
       Draw(1, EVENTS[1], USER_TIERS[3], MAX_HOUR, 0, 0, VALUE_MIN + 1) } >>

Draws(seed) == { d \in RandomSamples[seed] : d \in DrawSpace }

\* The item dictionary built at lines 42-50.
Item(d, cur) ==
  Only({ [PK        |-> user_ids[d.user + 1],
          SK        |-> SortKey(timestamp),
          EventType |-> d.event,
          Timestamp |-> Isoformat(timestamp),
          DateKey   |-> StrftimeDate(cur),
          UserTier  |-> d.tier,
          Value     |-> ItemValue(d.event, d.r)]
         : timestamp \in {EventTime(cur, d.hours, d.minutes, d.seconds)} })

\* ------------------------------------------------------------------ state
VARIABLES
  pc,                \* position of the script
  rng,               \* the seeding of the random module (line 2)
  table,             \* the table handle, "none" until acquired
  now,               \* the instant datetime.now() returned
  start_date,
  i,                 \* day offset of the outer loop
  current_date,
  num_events_today,
  j,                 \* events generated so far today
  all_items,
  drawn,             \* the per-day counts drawn so far
  scopes,            \* batch_writer scopes entered
  puts,              \* put_item calls made
  batch,             \* items put_item accepted, in call order
  failed_at,         \* index of the put_item call that raised, 0 if none
  error,             \* "none", "put" (put_item raised), "flush" (scope exit raised)
  stdout,            \* printed messages
  exit_status        \* -1 while running

vars == <<pc, rng, table, now, start_date, i, current_date, num_events_today, j,
          all_items, drawn, scopes, puts, batch, failed_at, error, stdout,
          exit_status>>

genVars == <<now, start_date, i, current_date, num_events_today, j, all_items, drawn>>
sinkVars == <<scopes, puts, batch, failed_at, error>>

NoDate == [ord |-> 0, sec |-> 0, us |-> 0]

Msg(m, n) == [msg |-> m, n |-> n]

Init ==
  /\ pc = "load"
  /\ rng \in 1..Len(RandomSamples)
  /\ table = "none"
  /\ now = NoDate
  /\ start_date = NoDate
  /\ i = 0
  /\ current_date = NoDate
  /\ num_events_today = 0
  /\ j = 0
  /\ all_items = <<>>
  /\ drawn = <<>>
  /\ scopes = 0
  /\ puts = 0
  /\ batch = <<>>
  /\ failed_at = 0
  /\ error = "none"
  /\ stdout = <<>>
  /\ exit_status = -1

\* lines 15-17: boto3.resource(...).Table(...) returns
ConnectOk ==
  /\ pc = "load"
  /\ table' = "handle"
  /\ pc' = "main"
  /\ UNCHANGED <<rng, genVars, sinkVars, stdout, exit_status>>

\* ConnectFail without the exit(): the script goes on after the diagnostic
ConnectFail_FallThrough ==
  /\ pc = "load"
  /\ stdout' = Append(stdout, Msg("connect_failed", 0))
  /\ pc' = "main"
  /\ UNCHANGED <<rng, table, genVars, sinkVars, exit_status>>

\* lines 18-20: the acquisition raises; the diagnostic is printed and exit()
\* is called without an argument, which ends the process with status 0
ConnectFail ==
  /\ pc = "load"
  /\ stdout' = Append(stdout, Msg("connect_failed", 0))
  /\ exit_status' = 0
  /\ pc' = "exited"
  /\ UNCHANGED <<rng, table, genVars, sinkVars>>

\* lines 62-63, 24-29
Begin ==
  /\ pc = "main"
  /\ stdout' = Append(stdout, Msg("start", 0))
  /\ \E n \in Nows :
       /\ now' = n
       /\ start_date' = StartDate(n)
  /\ all_items' = <<>>
  /\ i' = 0
  /\ pc' = "days"
  /\ UNCHANGED <<rng, table, current_date, num_events_today, j, drawn, sinkVars, exit_status>>

\* DayStart with the inner loop counting from 1
DayStart_FromOne ==
  /\ pc = "days"
  /\ i < DAYS_TO_GENERATE
  /\ current_date' = CurrentDate(start_date, i)
  /\ \E n \in MinEventsToday..MaxEventsToday :
       /\ num_events_today' = n
       /\ drawn' = Append(drawn, n)
  /\ j' = 1
  /\ pc' = "events"
  /\ UNCHANGED <<rng, table, now, start_date, i, all_items, sinkVars, stdout, exit_status>>

\* lines 31-33: one iteration of the outer loop begins
DayStart ==
  /\ pc = "days"
  /\ i < DAYS_TO_GENERATE
  /\ current_date' = CurrentDate(start_date, i)
  /\ \E n \in MinEventsToday..MaxEventsToday :
       /\ num_events_today' = n
       /\ drawn' = Append(drawn, n)
  /\ j' = 0
  /\ pc' = "events"
  /\ UNCHANGED <<rng, table, now, start_date, i, all_items, sinkVars, stdout, exit_status>>

\* lines 35-51: one iteration of the inner loop
GenEvent ==
  /\ pc = "events"
  /\ j < num_events_today
  /\ \E d \in Draws(rng) : all_items' = Append(all_items, Item(d, current_date))
  /\ j' = j + 1
  /\ UNCHANGED <<rng, pc, table, now, start_date, i, current_date, num_events_today,
                 drawn, sinkVars, stdout, exit_status>>

\* line 35 exhausted: back to line 31 with the next day offset
DayEnd ==
  /\ pc = "events"
  /\ j = num_events_today
  /\ i' = i + 1
  /\ pc' = "days"
  /\ UNCHANGED <<rng, table, now, start_date, current_date, num_events_today, j,
                 all_items, drawn, sinkVars, stdout, exit_status>>

\* OpenBatch with the batch block inside the outer loop: it runs after a day
OpenBatch_PerDay ==
  /\ pc = "days"
  /\ i >= 1
  /\ stdout' = Append(stdout, Msg("generated", Len(all_items)))
  /\ scopes' = scopes + 1
  /\ pc' = "batch"
  /\ UNCHANGED <<rng, table, genVars, puts, batch, failed_at, error, exit_status>>

\* lines 53-56: the outer loop is exhausted; the count is printed and the
\* batch_writer scope entered
OpenBatch ==
  /\ pc = "days"
  /\ i = DAYS_TO_GENERATE
  /\ stdout' = Append(stdout, Msg("generated", Len(all_items)))
  /\ scopes' = scopes + 1
  /\ pc' = "batch"
  /\ UNCHANGED <<rng, table, genVars, puts, batch, failed_at, error, exit_status>>

\* PutItemOk iterating reversed(all_items)
PutItemOk_Reversed ==
  /\ pc = "batch"
  /\ puts < Len(all_items)
  /\ puts' = puts + 1
  /\ batch' = Append(batch, all_items[Len(all_items) - puts])
  /\ UNCHANGED <<rng, pc, table, genVars, scopes, failed_at, error, stdout, exit_status>>

\* lines 57-58: batch.put_item(Item=item) returns
PutItemOk ==
  /\ pc = "batch"
  /\ puts < Len(all_items)
  /\ puts' = puts + 1
  /\ batch' = Append(batch, all_items[puts + 1])
  /\ UNCHANGED <<rng, pc, table, genVars, scopes, failed_at, error, stdout, exit_status>>

\* PutItemFail with the exception caught inside the loop, which goes on
PutItemFail_Swallowed ==
  /\ pc = "batch"
  /\ puts < Len(all_items)
  /\ puts' = puts + 1
  /\ failed_at' = puts + 1
  /\ error' = "put"
  /\ UNCHANGED <<rng, pc, table, genVars, scopes, batch, stdout, exit_status>>

\* line 58: batch.put_item raises; nothing catches it, the interpreter prints
\* the traceback and ends with status 1
PutItemFail ==
  /\ pc = "batch"
  /\ puts < Len(all_items)
  /\ puts' = puts + 1
  /\ failed_at' = puts + 1
  /\ error' = "put"
  /\ exit_status' = 1
  /\ pc' = "crashed"
  /\ UNCHANGED <<rng, table, genVars, scopes, batch, stdout>>

\* lines 56, 60: the scope closes, the completion message is printed and the
\* script ends
CloseBatch ==
  /\ pc = "batch"
  /\ puts = Len(all_items)
  /\ stdout' = Append(stdout, Msg("done", 0))
  /\ exit_status' = 0
  /\ pc' = "done"
  /\ UNCHANGED <<rng, table, genVars, sinkVars>>

\* line 56: the flush on scope exit raises
CloseBatchFail ==
  /\ pc = "batch"
  /\ puts = Len(all_items)
  /\ error' = "flush"
  /\ exit_status' = 1
  /\ pc' = "crashed"
  /\ UNCHANGED <<rng, table, genVars, scopes, puts, batch, failed_at, stdout>>

Next ==
  \/ ConnectOk
  \/ ConnectFail
  \/ Begin
  \/ DayStart
  \/ GenEvent
  \/ DayEnd
  \/ OpenBatch
  \/ PutItemOk
  \/ PutItemFail
  \/ CloseBatch
  \/ CloseBatchFail

Spec == Init /\ [][Next]_vars

\* The interpreter keeps executing the script until it ends.
FairSpec == Spec /\ WF_vars(Next)

\* ------------------------------------------------------- reading an item
Items == Range(all_items)

\* The calendar date (first ten characters) of an ISO-8601 timestamp
DatePart(ts) == SubSeq(ts, 1, 10)

\* datetime.fromisoformat(ts)
ParseIso(ts) ==
  [ord |-> Ymd2Ord(ParseNum(SubSeq(ts, 1, 4)), ParseNum(SubSeq(ts, 6, 7)),
                   ParseNum(SubSeq(ts, 9, 10))),
   sec |-> ParseNum(SubSeq(ts, 12, 13)) * 3600 + ParseNum(SubSeq(ts, 15, 16)) * 60
             + ParseNum(SubSeq(ts, 18, 19)),
   us  |-> IF Len(ts) > 19 THEN ParseNum(SubSeq(ts, 21, Len(ts))) ELSE 0]

SameSecond(a, b) == a.ord = b.ord /\ a.sec = b.sec

RECURSIVE SumSeq(_)
SumSeq(q) == IF q = <<>> THEN 0 ELSE q[1] + SumSeq(Tail(q))

GenerationFinished == pc \in {"batch", "done", "crashed"}

\* ----------------------------------------------------------------- claims

\* C1: every record's DateKey equals the calendar date of its Timestamp,
\* for every start instant and every drawn offset.  (Stated as claimed; the
\* code stamps DateKey from current_date, which carries the time of day of
\* now, so an offset that passes midnight puts Timestamp on the next day.)
C1_DateKeyIsTimestampDate ==
  \A it \in Items : it.DateKey = DatePart(it.Timestamp)

\* C2: when acquiring the table handle fails the diagnostic is printed and
\* the process ends: nothing is generated and no put_item is issued.
C2_ConnectFailureStopsEverything ==
  (pc # "load" /\ table = "none") =>
    /\ pc = "exited"
    /\ stdout = <<Msg("connect_failed", 0)>>
    /\ all_items = <<>> /\ drawn = <<>>
    /\ scopes = 0 /\ puts = 0 /\ batch = <<>>

C2_Witness == pc = "exited" /\ table = "none" /\ exit_status # -1

\* C3: the exit status tells a connection failure (non-zero) from normal
\* completion (zero).  (Stated as claimed; exit() without an argument ends
\* the process with status 0.)
C3_ExitStatusDistinguishes ==
  /\ pc = "exited" => exit_status # 0
  /\ pc = "done" => exit_status = 0

\* C4: when no submission fails, one put_item is issued per generated record
\* inside a single batch scope, in the order of all_items: the submitted
\* sequence is always a prefix of all_items and, at completion, all of it.
C4_SubmittedInGeneratedOrder ==
  /\ scopes <= 1
  /\ error = "none" => /\ puts = Len(batch)
                       /\ puts <= Len(all_items)
                       /\ batch = SubSeq(all_items, 1, puts)
  /\ pc = "done" => /\ scopes = 1
                    /\ error = "none"
                    /\ batch = all_items

C4_Witness ==
  /\ pc = "done"
  /\ Len(batch) = DAYS_TO_GENERATE * MaxEventsToday
  /\ batch[1] # batch[Len(batch)]

\* The state a raising put_item leaves: crashed at call k = failed_at, with
\* records 1..k-1 submitted and no completion message.
C5_FailedPutState ==
  error = "put" =>
    /\ pc = "crashed"
    /\ exit_status = 1
    /\ failed_at = puts
    /\ failed_at \in 1..Len(all_items)
    /\ batch = SubSeq(all_items, 1, failed_at - 1)
    /\ \A k \in 1..Len(stdout) : stdout[k].msg # "done"

\* C5: a failure raised by the put_item of the k-th record ends the process
\* with the error: records 1..k-1 are the only ones submitted, the k-th is
\* not submitted again, the completion message is never printed and no
\* further step is taken (no step starts from the crashed state).
C5_SubmissionFailureIsFinal ==
  [][pc # "crashed" /\ C5_FailedPutState']_vars

C5_Witness ==
  /\ error = "put"
  /\ failed_at = 2
  /\ Len(all_items) > 2

\* C6: a Checkout record's Value lies in VALUE_MIN..VALUE_MAX and a record
\* of any other event type has Value 0.
C6_ValueFollowsEventType ==
  \A it \in Items :
    /\ it.EventType \in Range(EVENTS)
    /\ it.EventType = "Checkout" => it.Value \in VALUE_MIN..VALUE_MAX
    /\ it.EventType # "Checkout" => it.Value = 0

C6_Witness ==
  /\ \E it \in Items : it.EventType = "Checkout" /\ it.Value = VALUE_MAX
  /\ \E it \in Items : it.EventType = "AddToCart" /\ it.Value = 0

\* C7: the number of records is the sum of the per-day counts drawn, each in
\* MinEventsToday..MaxEventsToday; when generation has finished one count
\* was drawn per day offset, the total lies between DAYS_TO_GENERATE times
\* the minimum and the maximum, and day offset k contributes exactly its
\* drawn count (at least one) of records.
C7_CountIsSumOfDailyDraws ==
  /\ \A k \in 1..Len(drawn) : drawn[k] \in MinEventsToday..MaxEventsToday
  /\ pc = "days" => Len(all_items) = SumSeq(drawn)
  /\ GenerationFinished =>
       /\ Len(drawn) = DAYS_TO_GENERATE
       /\ Len(all_items) = SumSeq(drawn)
       /\ Len(all_items) >= DAYS_TO_GENERATE * MinEventsToday
       /\ Len(all_items) <= DAYS_TO_GENERATE * MaxEventsToday
       /\ \A k \in 1..DAYS_TO_GENERATE :
            LET key == StrftimeDate(CurrentDate(start_date, k - 1))
                n   == Cardinality({x \in 1..Len(all_items) : all_items[x].DateKey = key})
            IN n = drawn[k] /\ n >= 1

C7_Witness ==
  /\ pc = "done"
  /\ drawn[1] = MinEventsToday
  /\ drawn[DAYS_TO_GENERATE] = MaxEventsToday
  /\ Len(all_items) = MinEventsToday + MaxEventsToday + (DAYS_TO_GENERATE - 2) * MaxEventsToday

\* C8: every record's Timestamp t satisfies now - DAYS_TO_GENERATE days <= t
\* and t < now.
C8_TimestampInWindow ==
  \A it \in Items :
    LET t == ParseIso(it.Timestamp)
    IN /\ ~DtLess(t, AddTimedelta(now, 0 - DAYS_TO_GENERATE, 0, 0, 0))
       /\ DtLess(t, now)

C8_Witness ==
  /\ \E it \in Items :
       ParseIso(it.Timestamp) = AddTimedelta(now, 0 - DAYS_TO_GENERATE, 0, 0, 0)
  /\ \E it \in Items :
       AddTimedelta(ParseIso(it.Timestamp), 0, 0, 0, 1) = now

\* C9: SK is "EVENT#" followed by the 14 digits YYYYMMDDHHMMSS of Timestamp;
\* for two records of one PK an earlier Timestamp gives a smaller SK, and
\* the SKs are equal exactly when the Timestamps are in the same second.
C9_SortKeyOrdersByTime ==
  /\ \A it \in Items :
       LET sk == it.SK
           ts == it.Timestamp
       IN /\ Len(sk) = 20
          /\ SubSeq(sk, 1, 6) = Str_EVENT
          /\ \A k \in 7..20 : IsDigit(sk[k])
          /\ SubSeq(sk, 7, 10) = SubSeq(ts, 1, 4)
          /\ SubSeq(sk, 11, 12) = SubSeq(ts, 6, 7)
          /\ SubSeq(sk, 13, 14) = SubSeq(ts, 9, 10)
          /\ SubSeq(sk, 15, 16) = SubSeq(ts, 12, 13)
          /\ SubSeq(sk, 17, 18) = SubSeq(ts, 15, 16)
          /\ SubSeq(sk, 19, 20) = SubSeq(ts, 18, 19)
  /\ \A time \in {[it \in Items |-> ParseIso(it.Timestamp)]} :
       \A a, b \in Items :
         a.PK = b.PK =>
           /\ DtLess(time[a], time[b]) => LexLess(a.SK, b.SK)
           /\ (a.SK = b.SK) <=> SameSecond(time[a], time[b])

C9_Witness ==
  /\ \E a, b \in Items :
       /\ a.PK = b.PK
       /\ DtLess(ParseIso(a.Timestamp), ParseIso(b.Timestamp))
       /\ a.DateKey = b.DateKey
  /\ \E a, b \in Items :
       /\ a.PK = b.PK
       /\ a.DateKey # b.DateKey
       /\ DtLess(ParseIso(a.Timestamp), ParseIso(b.Timestamp))
  /\ \E x, y \in 1..Len(all_items) :
       x # y /\ all_items[x].PK = all_items[y].PK /\ all_items[x].SK = all_items[y].SK

\* The state of the spec's state machine: Connected once the handle is
\* obtained, Done once the batch scope has closed.
Phase ==
  IF pc = "done" THEN "Done" ELSE IF table = "handle" THEN "Connected" ELSE "None"

C10_Sequential ==
  (scopes > 0 \/ puts > 0 \/ batch # <<>>) =>
    /\ GenerationFinished
    /\ i = DAYS_TO_GENERATE
    /\ Len(drawn) = DAYS_TO_GENERATE

C10_Step ==
  /\ scopes > 0 => all_items' = all_items
  /\ Phase' # Phase => \/ Phase = "None" /\ Phase' = "Connected"
                       \/ Phase = "Connected" /\ Phase' = "Done" /\ scopes = 1

\* C10: generation and submission are sequential phases.  No batch scope is
\* entered and no put_item issued before every day offset has been
\* generated; once the scope is entered all_items no longer changes; the
\* process moves only from no handle to Connected and from Connected to
\* Done; and once the handle is obtained the process reaches Done unless a
\* submission fails.
C10_GenerateThenSubmit ==
  /\ []C10_Sequential
  /\ [][C10_Step]_vars
  /\ (table = "handle") ~> (pc = "done" \/ error # "none")

C10_Witness ==
  /\ pc = "done"
  /\ Phase = "Done"
  /\ puts = DAYS_TO_GENERATE * MaxEventsToday

====
